---- MODULE Spec2Model ----
(***************************************************************************)
(* Model of nage-rs' runtime-command dispatcher, src/cmd/runtime.rs:       *)
(* RuntimeCommand::run, the permission gate is_normal and the ten command  *)
(* handlers, acting on the session (Player), the manifest's debug flag,    *)
(* the resource bundle, the audio channel players and the save manager.    *)
(*                                                                         *)
(* Strings are sequences of characters; a character is written as a       *)
(* one-letter string or as its code point ("U+00E9"), and has a UTF-8      *)
(* width, because Rust slices strings by bytes.                            *)
(***************************************************************************)
EXTENDS Integers, Sequences, FiniteSets, TLC

VARIABLES
  config,     \* Manifest: [settings |-> [debug |-> BOOLEAN]]
  player,     \* the session: history, lang, info_pages, log, channels, notes, variables
  resources,  \* Resources: translations, info_pages, audio (None or the players' names), prompts
  playing,    \* the channel players (sinks) that are currently playing
  result,     \* what the last call of run returned (or that it panicked)
  call        \* what the last call of run did: its tag, inputs, the state before it, its collaborator calls

vars == <<config, player, resources, playing, result, call>>

(***************************************************************************)
(* Bounds and program constants                                            *)
(***************************************************************************)
\* longest history a session starts with
MaxHist == 3
\* longest log a session starts with under LogSpec
MaxLog == 6
\* log.chunks(5)
PageSize == 5
\* chunk[0][..25]
LabelPrefix == 25

Min(a, b) == IF a < b THEN a ELSE b

(***************************************************************************)
(* Strings                                                                 *)
(***************************************************************************)
\* UTF-8 width of a character: the one non-ASCII character of the model takes 2 bytes
Width(c) == IF c = "U+00E9" THEN 2 ELSE 1

RECURSIVE ByteLen(_)
\* str::len: the length in bytes
ByteLen(s) == IF s = <<>> THEN 0 ELSE Width(Head(s)) + ByteLen(Tail(s))

\* str::is_char_boundary(n): n is the byte length of a prefix of whole characters
IsCharBoundary(s, n) == \E k \in 0..Len(s) : ByteLen(SubSeq(s, 1, k)) = n

\* &s[..n]: defined only when IsCharBoundary(s, n); Rust panics otherwise
SliceTo(s, n) ==
  LET k == CHOOSE k \in 0..Len(s) : ByteLen(SubSeq(s, 1, k)) = n
  IN SubSeq(s, 1, k)

RECURSIVE Repeat(_, _)
Repeat(c, n) == IF n = 0 THEN <<>> ELSE <<c>> \o Repeat(c, n - 1)

RECURSIVE Join(_, _)
\* [String]::join(sep) and itertools::join
Join(ss, sep) ==
  IF ss = <<>> THEN <<>>
  ELSE IF Len(ss) = 1 THEN ss[1]
  ELSE ss[1] \o sep \o Join(Tail(ss), sep)

RECURSIVE Chunks(_, _)
\* slice::chunks(n): consecutive pieces of n elements, the last one possibly shorter
Chunks(s, n) ==
  IF s = <<>> THEN <<>>
  ELSE <<SubSeq(s, 1, Min(n, Len(s)))>> \o Chunks(SubSeq(s, Min(n, Len(s)) + 1, Len(s)), n)

\* the orders in which a hash map or hash set may iterate over the elements of S
Orders(S) ==
  {o \in [1..Cardinality(S) -> S] : \A i, j \in 1..Cardinality(S) : i # j => o[i] # o[j]}

(***************************************************************************)
(* Command tags and results                                                *)
(***************************************************************************)
RuntimeCommand ==
  {"Back", "Lang", "Info", "Log", "Sound", "Save", "Quit", "Prompt", "Notes", "Variables"}

\* CommandResult::Submit(GameLoopResult)
Submit(signal) == [kind |-> "Submit", signal |-> signal]
\* CommandResult::Output(String)
Output(text) == [kind |-> "Output", text |-> text]
\* Err(anyhow!(msg))
Err(msg) == [kind |-> "Err", msg |-> msg]
\* the call did not return: the thread panicked and the process aborts
Panicked == [kind |-> "Panic"]

Continue == <<"Continue">>
Retry(flag) == <<"Retry", flag>>
Shutdown(flag) == <<"Shutdown", flag>>

\* CommandResult::retry
retry == Submit(Retry(TRUE))

\* the message of the permission gate's failure
PermissionDenied == "Unable to access debug commands"
\* the failures of the collaborators, which run surfaces unchanged
UiError == "prompt_one failed"
WriteError == "SaveManager::write failed"
LookupError == "Audio::get_player failed"
PromptError == "Prompt lookup failed"

\* a failure raised by a handler or a collaborator, as opposed to the permission gate
CommandFailed(r) == r.kind = "Err" /\ r.msg # PermissionDenied

(***************************************************************************)
(* What a handler does: the session and the players after it, its result,  *)
(* and the collaborator calls it made                                      *)
(***************************************************************************)
Effect(p, pl, r) ==
  [player |-> p, playing |-> pl, result |-> r,
   lookups |-> <<>>,     \* Audio::get_player calls, in order
   stops |-> <<>>,       \* Sink::stop calls, in order
   failed_at |-> 0,      \* position in the Sound loop of the channel whose lookup failed
   writes |-> <<>>,      \* SaveManager::write calls, in order
   pages |-> <<>>,       \* the page labels the Log command offered
   printed |-> <<>>,     \* the info page rendered to the terminal
   handlers |-> <<>>]    \* the handlers the dispatcher invoked

mut_is_normal_notes(tag) ==
  tag \in {"Back", "Lang", "Info", "Log", "Sound", "Save", "Quit", "Notes"}

mut_is_normal_no_quit(tag) ==
  tag \in {"Back", "Lang", "Info", "Log", "Sound", "Save"}

\* RuntimeCommand::is_normal
is_normal(tag) ==
  tag \in {"Back", "Lang", "Info", "Log", "Sound", "Save", "Quit"}

\* Player::back: steps the session back one choice
Player_back(p) ==
  [p EXCEPT !.history = SubSeq(p.history, 1, Len(p.history) - 1)]

mut_back_guard(p, pl) ==
  IF Len(p.history) < 1
  THEN Effect(p, pl, Err("Can't go back right now!"))
  ELSE Effect(Player_back(p), pl, Submit(Continue))

mut_back_no_guard(p, pl) == Effect(Player_back(p), pl, Submit(Continue))

\* RuntimeCommand::back
back(p, pl) ==
  IF Len(p.history) <= 1
  THEN Effect(p, pl, Err("Can't go back right now!"))
  ELSE Effect(Player_back(p), pl, Submit(Continue))

\* RuntimeCommand::lang; ui_ok: prompt_one returned a choice, lang_choice
lang(p, pl, translations, ui_ok, lang_choice) ==
  IF translations = {}
  THEN Effect(p, pl, Err("No display languages loaded"))
  ELSE IF ~ui_ok
  THEN Effect(p, pl, Err(UiError))
  ELSE Effect([p EXCEPT !.lang = lang_choice], pl, retry)

\* RuntimeCommand::info; pages is the bundle's map from page id to content
info(p, pl, unlocked_pages, pages, ui_ok, info_choice) ==
  IF unlocked_pages = {}
  THEN Effect(p, pl, Err("No info pages unlocked"))
  ELSE IF ~ui_ok
  THEN Effect(p, pl, Err(UiError))
  ELSE IF info_choice \notin DOMAIN pages
  THEN Effect(p, pl, Panicked)
  ELSE [Effect(p, pl, retry) EXCEPT !.printed = pages[info_choice]]

\* the three dots appended to a page label
Ellipsis == <<".", ".", ".">>
\* the separator of the entries of a log page
BlankLine == <<"\n", "\n">>

mut_log_join(p, pl, ui_ok, index) ==
  IF p.log = <<>>
  THEN Effect(p, pl, Err("No log entries to display"))
  ELSE
    LET pages == Chunks(p.log, PageSize)
    IN IF \E i \in 1..Len(pages) : ~IsCharBoundary(pages[i][1], LabelPrefix)
       THEN Effect(p, pl, Panicked)
       ELSE
         LET page_choices ==
               [i \in 1..Len(pages) |-> SliceTo(pages[i][1], LabelPrefix) \o Ellipsis]
         IN IF ~ui_ok
            THEN [Effect(p, pl, Err(UiError)) EXCEPT !.pages = page_choices]
            ELSE
              LET page_content == pages[index + 1]
                  entries == Join(page_content, <<"\n">>)
              IN [Effect(p, pl, Output(<<"\n">> \o entries)) EXCEPT !.pages = page_choices]

\* RuntimeCommand::log; index is the 0-based position of the label the player picked
log(p, pl, ui_ok, index) ==
  IF p.log = <<>>
  THEN Effect(p, pl, Err("No log entries to display"))
  ELSE
    LET pages == Chunks(p.log, PageSize)
    IN IF \E i \in 1..Len(pages) : ~IsCharBoundary(pages[i][1], LabelPrefix)
       THEN Effect(p, pl, Panicked)
       ELSE
         LET page_choices ==
               [i \in 1..Len(pages) |-> SliceTo(pages[i][1], LabelPrefix) \o Ellipsis]
         IN IF ~ui_ok
            THEN [Effect(p, pl, Err(UiError)) EXCEPT !.pages = page_choices]
            ELSE
              LET page_content == pages[index + 1]
                  entries == Join(page_content, BlankLine)
              IN [Effect(p, pl, Output(<<"\n">> \o entries)) EXCEPT !.pages = page_choices]

\* Audio::get_player(channel) is Ok: the lookups of the channels in `failing` fail
Audio_get_player(channel, failing) == channel \notin failing

\* Sink::stop: the channel's player plays no more
Sink_stop(pl, channel) == pl \ {channel}

mut_sound_step_keep(e, i, channel, enabled_channels, failing) ==
  IF channel \in enabled_channels
  THEN [e EXCEPT !.player.channels = @ \cup {channel}]
  ELSE
    LET looked == [e EXCEPT !.lookups = Append(@, channel)]
    IN IF ~Audio_get_player(channel, failing)
       THEN [looked EXCEPT !.result = Err(LookupError), !.failed_at = i]
       ELSE [looked EXCEPT !.stops = Append(@, channel),
                           !.playing = Sink_stop(@, channel)]

mut_sound_step_stop_all(e, i, channel, enabled_channels, failing) ==
  LET removed == [e EXCEPT !.player.channels =
                              IF channel \in enabled_channels
                              THEN @ \cup {channel} ELSE @ \ {channel},
                           !.lookups = Append(@, channel)]
  IN IF ~Audio_get_player(channel, failing)
     THEN [removed EXCEPT !.result = Err(LookupError), !.failed_at = i]
     ELSE [removed EXCEPT !.stops = Append(@, channel),
                          !.playing = Sink_stop(@, channel)]

\* one iteration of the loop of RuntimeCommand::sound, for the i-th channel
sound_step(e, i, channel, enabled_channels, failing) ==
  IF channel \in enabled_channels
  THEN [e EXCEPT !.player.channels = @ \cup {channel}]
  ELSE
    LET removed == [e EXCEPT !.player.channels = @ \ {channel},
                             !.lookups = Append(@, channel)]
    IN IF ~Audio_get_player(channel, failing)
       THEN [removed EXCEPT !.result = Err(LookupError), !.failed_at = i]
       ELSE [removed EXCEPT !.stops = Append(@, channel),
                            !.playing = Sink_stop(@, channel)]

RECURSIVE sound_loop(_, _, _, _, _)
\* the loop of RuntimeCommand::sound over audio.players.keys(), from the i-th key on;
\* a failed lookup leaves the loop (the ? operator)
sound_loop(e, i, keys, enabled_channels, failing) ==
  IF i > Len(keys) \/ e.result.kind = "Err"
  THEN e
  ELSE sound_loop(sound_step(e, i, keys[i], enabled_channels, failing),
                  i + 1, keys, enabled_channels, failing)

mut_sound_rollback(p, pl, audio, ui_ok, keys, enabled_channels, failing) ==
  IF ~audio.present
  THEN Effect(p, pl, Err("No sound channels loaded"))
  ELSE IF ~ui_ok
  THEN Effect(p, pl, Err(UiError))
  ELSE
    LET e == sound_loop(Effect(p, pl, retry), 1, keys, enabled_channels, failing)
    IN IF e.result.kind = "Err" THEN [e EXCEPT !.player = p] ELSE e

\* RuntimeCommand::sound; keys is audio.players.keys() in its iteration order,
\* enabled_channels the channels the player left selected
sound(p, pl, audio, ui_ok, keys, enabled_channels, failing) ==
  IF ~audio.present
  THEN Effect(p, pl, Err("No sound channels loaded"))
  ELSE IF ~ui_ok
  THEN Effect(p, pl, Err(UiError))
  ELSE sound_loop(Effect(p, pl, retry), 1, keys, enabled_channels, failing)

\* Prompt::debug_info: the debug description of a prompt
Prompt_debug_info(prompt_name, file) == prompt_name \o <<" ", "i", "n", " ">> \o file

\* RuntimeCommand::prompt; ui_ok2 and info_ok: the second selection and debug_info succeeded
prompt(p, pl, prompts, ui_ok, file, ui_ok2, prompt_name, info_ok) ==
  IF ~ui_ok
  THEN Effect(p, pl, Err(UiError))
  ELSE IF file \notin DOMAIN prompts
  THEN Effect(p, pl, Err(PromptError))
  ELSE IF ~ui_ok2
  THEN Effect(p, pl, Err(UiError))
  ELSE IF prompt_name \notin prompts[file] \/ ~info_ok
  THEN Effect(p, pl, Err(PromptError))
  ELSE Effect(p, pl, Output(Prompt_debug_info(prompt_name, file)))

\* RuntimeCommand::notes; order is the iteration order of the applied notes
notes(p, pl, order) ==
  IF p.notes = {}
  THEN Effect(p, pl, Err("No notes applied"))
  ELSE Effect(p, pl, Output(Join(order, <<",", " ">>)))

\* RuntimeCommand::variables; order is the iteration order of the variable names
variables(p, pl, order) ==
  IF DOMAIN p.variables = {}
  THEN Effect(p, pl, Err("No variables applied"))
  ELSE
    LET lines == [i \in 1..Len(order) |-> order[i] \o <<":", " ">> \o p.variables[order[i]]]
    IN Effect(p, pl, Output(<<"\n">> \o Join(lines, <<"\n">>)))

\* the text of the Save command's output
Saving == <<"S", "a", "v", "i", "n", "g", ".", ".", ".", " ">>

mut_run_Save_swallow(p, pl, write_ok) ==
  [Effect(p, pl, Output(Saving))
     EXCEPT !.writes = <<[player |-> p, slot |-> "None", silent |-> FALSE]>>]

\* the Save arm of RuntimeCommand::run; write_ok: SaveManager::write returned Ok
run_Save(p, pl, write_ok) ==
  [Effect(p, pl, IF write_ok THEN Output(Saving) ELSE Err(WriteError))
     EXCEPT !.writes = <<[player |-> p, slot |-> "None", silent |-> FALSE]>>]

\* the inputs of a call that the command does not read
NoInput ==
  [ui_ok |-> TRUE, choice |-> "", index |-> 0, order |-> <<>>, selected |-> {},
   failing |-> {}, write_ok |-> TRUE, file |-> <<>>, ui_ok2 |-> TRUE, name |-> <<>>,
   info_ok |-> TRUE]

\* RuntimeCommand::run; in holds what the player selects and how the collaborators answer
run(tag, cfg, p, pl, res, in) ==
  IF ~is_normal(tag) /\ ~cfg.settings.debug
  THEN Effect(p, pl, Err(PermissionDenied))
  ELSE
    LET e == CASE tag = "Back" -> back(p, pl)
               [] tag = "Lang" -> lang(p, pl, res.translations, in.ui_ok, in.choice)
               [] tag = "Info" -> info(p, pl, p.info_pages, res.info_pages, in.ui_ok, in.choice)
               [] tag = "Log" -> log(p, pl, in.ui_ok, in.index)
               [] tag = "Sound" ->
                    sound(p, pl, res.audio, in.ui_ok, in.order, in.selected, in.failing)
               [] tag = "Save" -> run_Save(p, pl, in.write_ok)
               [] tag = "Quit" -> Effect(p, pl, Submit(Shutdown(FALSE)))
               [] tag = "Prompt" ->
                    prompt(p, pl, res.prompts, in.ui_ok, in.file, in.ui_ok2, in.name, in.info_ok)
               [] tag = "Notes" -> notes(p, pl, in.order)
               [] tag = "Variables" -> variables(p, pl, in.order)
    IN [e EXCEPT !.handlers = <<tag>>]

(***************************************************************************)
(* The states a session starts in                                          *)
(***************************************************************************)
\* log entries: 26 bytes of ASCII, 2 bytes, and 26 bytes whose 25th is inside a character
LongEntry == Repeat("a", 26)
ShortEntry == <<"h", "i">>
AccentEntry == Repeat("c", 12) \o Repeat("U+00E9", 7)
EntryPool == {LongEntry, ShortEntry, AccentEntry}

\* the channels of the game's audio, and a channel a save file names that the game has no more
AudioChannels == {"music", "sfx"}
ChannelNames == AudioChannels \cup {"old"}

LorePage == <<"l", "o", "r", "e">>
Omen == <<"o", "m", "e", "n">>
Key == <<"k", "e", "y">>
IntroFile == <<"i", "n", "t", "r", "o">>
StartPrompt == <<"s", "t", "a", "r", "t">>

\* a game with translations, info pages and audio
FullBundle ==
  [translations |-> {"en", "fr"},
   info_pages |-> [id \in {"lore"} |-> LorePage],
   audio |-> [present |-> TRUE, players |-> AudioChannels],
   prompts |-> [f \in {IntroFile} |-> {StartPrompt}]]

\* a game with none of them (audio is None)
BareBundle ==
  [translations |-> {},
   info_pages |-> [id \in {} |-> LorePage],
   audio |-> [present |-> FALSE, players |-> {}],
   prompts |-> [f \in {IntroFile} |-> {StartPrompt}]]

\* what the story has given the session: nothing yet, or a page, notes and a variable
Progress ==
  {[info_pages |-> {}, notes |-> {}, variables |-> [n \in {} |-> <<>>]],
   [info_pages |-> {"lore"}, notes |-> {Omen, Key}, variables |-> [n \in {<<"x">>} |-> <<"1">>]]}

Session(hist, pr, lg, chans) ==
  [history |-> [i \in 1..hist |-> i], lang |-> "en", info_pages |-> pr.info_pages,
   log |-> lg, channels |-> chans, notes |-> pr.notes, variables |-> pr.variables]

NoCall ==
  [tag |-> "None", in |-> NoInput, pre |-> Session(1, CHOOSE pr \in Progress : pr.notes = {}, <<>>, {}),
   pre_playing |-> {}, lookups |-> <<>>, stops |-> <<>>, failed_at |-> 0, writes |-> <<>>,
   pages |-> <<>>, printed |-> <<>>, handlers |-> <<>>]

\* the logs of at most n entries
Logs(n) == UNION {[1..k -> EntryPool] : k \in 0..n}

\* any history, progress and debug flag, in a game with or without audio
Init ==
  /\ config \in {[settings |-> [debug |-> d]] : d \in BOOLEAN}
  /\ resources \in {FullBundle, BareBundle}
  /\ \E hist \in 1..MaxHist, pr \in Progress, chans \in {{}, {"music"}},
        lg \in {<<>>, <<LongEntry>>, <<ShortEntry>>} :
       /\ pr.info_pages \subseteq DOMAIN resources.info_pages
       /\ player = Session(hist, pr, lg, chans)
  /\ playing \in SUBSET (resources.audio.players \cap {"music"})
  /\ result = [kind |-> "None"]
  /\ call = NoCall

\* any enabled channels and any playing players, in a game with or without audio
SoundInit ==
  /\ config \in {[settings |-> [debug |-> d]] : d \in BOOLEAN}
  /\ resources \in {FullBundle, BareBundle}
  /\ \E chans \in SUBSET ChannelNames :
       player = Session(1, CHOOSE pr \in Progress : pr.notes = {}, <<>>, chans)
  /\ playing \in SUBSET resources.audio.players
  /\ result = [kind |-> "None"]
  /\ call = NoCall

\* any log, in a session at its first choice in a game without audio or debug mode
LogInit ==
  /\ config = [settings |-> [debug |-> FALSE]]
  /\ resources = BareBundle
  /\ \E lg \in Logs(MaxLog) :
       player = Session(1, CHOOSE pr \in Progress : pr.notes = {}, lg, {})
  /\ playing = {}
  /\ result = [kind |-> "None"]
  /\ call = NoCall

(***************************************************************************)
(* The calls of run                                                        *)
(***************************************************************************)
\* the process is running: no call has panicked
Alive == result.kind # "Panic"

\* one call of run with the tag and the inputs
Do(tag, in) ==
  \E e \in {run(tag, config, player, playing, resources, in)} :
     /\ Alive
     /\ player' = e.player
     /\ playing' = e.playing
     /\ result' = e.result
     /\ call' = [tag |-> tag, in |-> in, pre |-> player, pre_playing |-> playing,
                 lookups |-> e.lookups, stops |-> e.stops, failed_at |-> e.failed_at,
                 writes |-> e.writes, pages |-> e.pages, printed |-> e.printed,
                 handlers |-> e.handlers]
     /\ UNCHANGED <<config, resources>>

\* the page indexes the Log command's selection can return
PageIndexes == 0..(Min(1, Len(player.log)) * ((Len(player.log) + PageSize - 1) \div PageSize) - 1)

RunBack == Do("Back", NoInput)

RunLang ==
  \E ui_ok \in BOOLEAN :
    \E choice \in IF ui_ok /\ resources.translations # {} THEN resources.translations ELSE {""} :
      Do("Lang", [NoInput EXCEPT !.ui_ok = ui_ok, !.choice = choice])

RunInfo ==
  \E ui_ok \in BOOLEAN :
    \E choice \in IF ui_ok /\ player.info_pages # {} THEN player.info_pages ELSE {""} :
      Do("Info", [NoInput EXCEPT !.ui_ok = ui_ok, !.choice = choice])

RunLog ==
  \E ui_ok \in BOOLEAN :
    \E index \in IF ui_ok /\ player.log # <<>> THEN PageIndexes ELSE {0} :
      Do("Log", [NoInput EXCEPT !.ui_ok = ui_ok, !.index = index])

RunSound ==
  \E ui_ok \in BOOLEAN :
    \E order \in IF resources.audio.present THEN Orders(resources.audio.players) ELSE {<<>>} :
      \E selected \in IF ui_ok THEN SUBSET resources.audio.players ELSE {{}} :
        \E failing \in {{}} \cup {{c} : c \in IF ui_ok THEN resources.audio.players \ selected ELSE {}} :
          Do("Sound", [NoInput EXCEPT !.ui_ok = ui_ok, !.order = order,
                                      !.selected = selected, !.failing = failing])

RunSave == \E write_ok \in BOOLEAN : Do("Save", [NoInput EXCEPT !.write_ok = write_ok])

RunQuit == Do("Quit", NoInput)

RunPrompt ==
  \E ui_ok \in BOOLEAN, file \in DOMAIN resources.prompts :
    \E ui_ok2 \in IF ui_ok THEN BOOLEAN ELSE {TRUE} :
      \E name \in resources.prompts[file], info_ok \in IF ui_ok /\ ui_ok2 THEN BOOLEAN ELSE {TRUE} :
        Do("Prompt", [NoInput EXCEPT !.ui_ok = ui_ok, !.file = file, !.ui_ok2 = ui_ok2,
                                     !.name = name, !.info_ok = info_ok])

RunNotes == \E order \in Orders(player.notes) : Do("Notes", [NoInput EXCEPT !.order = order])

RunVariables ==
  \E order \in Orders(DOMAIN player.variables) : Do("Variables", [NoInput EXCEPT !.order = order])

Next ==
  \/ RunBack
  \/ RunLang
  \/ RunInfo
  \/ RunLog
  \/ RunSound
  \/ RunSave
  \/ RunQuit
  \/ RunPrompt
  \/ RunNotes
  \/ RunVariables

Spec == Init /\ [][Next]_vars

SoundSpec == SoundInit /\ [][Next]_vars

LogSpec == LogInit /\ [][Next]_vars

(***************************************************************************)
(* Properties of the dispatcher                                            *)
(***************************************************************************)
DebugOnly == {"Prompt", "Notes", "Variables"}

\* how many times x occurs in the sequence s
Count(s, x) == Cardinality({i \in 1..Len(s) : s[i] = x})

\* C1: a debug-only command run with the debug flag false returns the
\* PermissionDenied failure, runs no handler, calls no collaborator and leaves
\* the session and the channel players as they were before the call.
C1_DebugGateDenies ==
  (call.tag \in DebugOnly /\ ~config.settings.debug) =>
    /\ result = Err(PermissionDenied)
    /\ call.handlers = <<>>
    /\ player = call.pre
    /\ playing = call.pre_playing
    /\ call.lookups = <<>> /\ call.stops = <<>> /\ call.writes = <<>>

\* a Notes command was denied although the session has notes to list
C1_Witness ==
  /\ call.tag = "Notes" /\ ~config.settings.debug
  /\ player.notes # {}
  /\ result = Err(PermissionDenied)

C7_QuitShutsDown ==
  call.tag = "Quit" =>
    /\ result = Submit(Shutdown(FALSE))
    /\ player = call.pre
    /\ playing = call.pre_playing

\* a Quit outside debug mode, on a session the story has filled
C7_Witness ==
  /\ call.tag = "Quit" /\ ~config.settings.debug
  /\ player.notes # {} /\ Len(player.history) > 1
  /\ result = Submit(Shutdown(FALSE))

SaveWrite == [player |-> call.pre, slot |-> "None", silent |-> FALSE]

\* C6 as claimed: Save calls the save manager's write exactly once with (the
\* session, no slot override, silent=false) and returns Output("Saving... "),
\* also when the write reports a failure.
C6_SaveAlwaysOutputs ==
  call.tag = "Save" =>
    /\ call.writes = <<SaveWrite>>
    /\ result = Output(Saving)

\* C6 as amended: Save calls the save manager's write exactly once with (the
\* session, no slot override, silent=false); it returns Output("Saving... ")
\* when the write succeeds and the write's failure when the write fails.
C6_SaveWritesOnce ==
  call.tag = "Save" =>
    /\ call.writes = <<SaveWrite>>
    /\ call.in.write_ok => result = Output(Saving)
    /\ ~call.in.write_ok => result = Err(WriteError)
    /\ player = call.pre

\* a Save whose write failed
C6_Witness ==
  /\ call.tag = "Save" /\ ~call.in.write_ok
  /\ call.writes = <<SaveWrite>>
  /\ result = Err(WriteError)

\* the Sound command returned successfully
SoundDone == call.tag = "Sound" /\ result = retry

\* C3 as claimed: after a successful Sound, every channel name, known to the
\* audio subsystem or enabled before the call, is enabled if and only if it
\* was selected.
C3_EnabledIffSelectedAll ==
  SoundDone =>
    \A c \in resources.audio.players \cup call.pre.channels :
      c \in player.channels <=> c \in call.in.selected

\* C3 as amended: after a successful Sound, every channel name known to the
\* audio subsystem is enabled if and only if it was selected; a name enabled
\* before the call that the audio subsystem does not know stays enabled.
C3_EnabledIffSelected ==
  SoundDone =>
    /\ \A c \in resources.audio.players :
         c \in player.channels <=> c \in call.in.selected
    /\ \A c \in call.pre.channels \ resources.audio.players : c \in player.channels

\* a successful Sound that disabled music, enabled sfx and kept the unknown channel
C3_Witness ==
  /\ SoundDone
  /\ "music" \in call.pre.channels \ player.channels
  /\ "sfx" \in player.channels \ call.pre.channels
  /\ "old" \in call.pre.channels \cap player.channels

C8_NoRollback ==
  (call.tag = "Sound" /\ call.failed_at # 0) =>
    /\ CommandFailed(result)
    /\ \A j \in 1..Len(call.in.order) :
         LET c == call.in.order[j]
         IN /\ j < call.failed_at =>
                 (c \in player.channels <=> c \in call.in.selected)
            /\ j > call.failed_at =>
                 /\ c \in player.channels <=> c \in call.pre.channels
                 /\ c \in playing <=> c \in call.pre_playing

\* the lookup of the second channel failed after the first one had been enabled
C8_Witness ==
  /\ call.tag = "Sound" /\ call.failed_at = 2
  /\ CommandFailed(result)
  /\ call.in.order[1] \in player.channels \ call.pre.channels

\* the number of pages of a log of n entries
PageCount(n) == (n + PageSize - 1) \div PageSize

\* the entries of page k (0-indexed) of the log
PageEntries(lg, k) == SubSeq(lg, PageSize * k + 1, Min(Len(lg), PageSize * k + PageSize))

\* C5 as claimed: when the Log command returns the page k the player selected,
\* it offered ceil(N/5) pages and the output is exactly the entries
\* 5k .. min(N, 5k+5)-1 joined by a blank line, with nothing before the first;
\* the log is not modified.
C5_PageIsJoinedEntries ==
  (call.tag = "Log" /\ result.kind = "Output") =>
    /\ Len(call.pages) = PageCount(Len(call.pre.log))
    /\ result.text = Join(PageEntries(call.pre.log, call.in.index), BlankLine)
    /\ player.log = call.pre.log

\* C5 as amended: the Log command partitions a log of N >= 1 entries into
\* ceil(N/5) pages, and whenever it returns the page k the player selected,
\* the output is a line break followed by the entries 5k .. min(N, 5k+5)-1 in
\* log order joined by a blank line, with nothing after the last; the log is
\* not modified.
C5_PageIsNewlineThenEntries ==
  /\ (call.tag = "Log" /\ result.kind \in {"Output", "Err"} /\ call.pre.log # <<>>) =>
       /\ Len(call.pages) = PageCount(Len(call.pre.log))
       /\ player.log = call.pre.log
  /\ (call.tag = "Log" /\ result.kind = "Output") =>
       /\ call.in.index \in 0..(PageCount(Len(call.pre.log)) - 1)
       /\ result.text = <<"\n">> \o Join(PageEntries(call.pre.log, call.in.index), BlankLine)

\* the second page of a log of more than 5 entries was returned, and its first
\* page, with a short entry inside, before that
C5_Witness ==
  /\ call.tag = "Log" /\ result.kind = "Output"
  /\ Len(call.pre.log) > PageSize /\ call.in.index = 1
  /\ call.pre.log[2] = ShortEntry
  /\ Len(call.pages) = 2

\* C9: for every non-empty log the Log command returns, with Output or with a
\* CommandFailed failure; it never aborts the process.
C9_LogReturns ==
  (call.tag = "Log" /\ call.pre.log # <<>>) =>
    result.kind = "Output" \/ CommandFailed(result)

====
